---- MODULE Spec2Model ----
(***************************************************************************)
(* State-machine model of the media picker core:                           *)
(*   - the zustand store (core/store.ts): items, uploadingItems,           *)
(*     selectedIds, isLoading, searchQuery, page, hasMore, total;          *)
(*   - the useMediaPicker hook (hooks/useMediaPicker.ts): debounced        *)
(*     search, fetchItems with its AbortController, the per-file upload    *)
(*     lifecycle with its two display timers, deleteItem, refresh and      *)
(*     loadMore.                                                           *)
(* The adapter is the environment: each pending adapter call settles in a  *)
(* step of its own, resolving or rejecting with a value chosen from a      *)
(* small set.  Everything between two awaits of the code is one action.    *)
(***************************************************************************)
EXTENDS Integers, Sequences, FiniteSets, TLC

\* ------------------------------------------------------------------ bounds
MaxId == 3
MaxItems == 3
MaxListCalls == 4
MaxUploads == 2
MaxDeletes == 1
MaxCalls == 3
MaxPending == 2

MediaIds == 1..MaxId

\* search strings typed by the user
Queries == {"", "cat", "cats"}

\* what adapter.list may resolve with (types.ts ListResult)
ListResults ==
    { [items |-> <<>>,     hasMore |-> FALSE, total |-> 0],
      [items |-> <<1>>,    hasMore |-> TRUE,  total |-> 2],
      [items |-> <<2>>,    hasMore |-> FALSE, total |-> 2] }

\* progress percentages an adapter reports through onProgress
ProgressValues == {30, 60}

\* how adapter.list may reject: error.name
RejectNames == {"Error", "AbortError"}

\* how adapter.upload may reject: a non-Error value, or an Error's message
UploadErrors == {"NotAnError", "", "Network error"}

VARIABLES
    store,                \* the zustand store's state (MediaPickerState)
    multiple,             \* the hook's options.multiple
    initialSelected,      \* the ids of options.initialSelected
    heap,                 \* two store instances and the module's initialState
                          \* object, with the objects their fields refer to
    phase,                \* "init" (rendered, effects not run), "mounted", "unmounted"
    debouncedSearchQuery, \* useDebounce's state
    debounceTimer,        \* TRUE while useDebounce's timer is pending
    abortControllerRef,   \* abortControllerRef.current: a list call's id, 0 for null
    listCalls,            \* the adapter.list calls not yet settled
    nListCalls,           \* number of adapter.list calls issued so far
    uploads,              \* per handleSingleFileUpload invocation: its position and blob URL
    deletes,              \* the ids whose adapter.delete call has not yet settled
    logged,               \* whether the last step called console.error
    settled,              \* how the promise of the async function that ended
                          \* in the last step settled, "none" when none ended
    op,                   \* the operation the last step ran
    storeCalls            \* the store calls made so far (store-level specifications)

vars == <<store, multiple, initialSelected, heap, phase, debouncedSearchQuery, debounceTimer,
          abortControllerRef, listCalls, nListCalls, uploads, deletes,
          logged, settled, op, storeCalls>>

configVars == <<multiple, initialSelected, heap, phase, storeCalls>>
searchVars == <<debouncedSearchQuery, debounceTimer>>
listVars   == <<abortControllerRef, listCalls, nListCalls>>

\* ------------------------------------------------------------ sequences
Range(seq) == { seq[i] : i \in DOMAIN seq }

\* ------------------------------------------------------------ the store
\* MediaItem is modelled by its id (its identity; the other fields are
\* never read by the core).
NoMedia == 0
\* the optional error of an UploadingItem when it is undefined
NoError == "undefined"

initialState ==
    [ items          |-> <<>>,
      uploadingItems |-> <<>>,
      selectedIds    |-> {},
      isLoading      |-> FALSE,
      searchQuery    |-> "",
      page           |-> 1,
      hasMore        |-> FALSE,
      total          |-> 0 ]

createMediaPickerStore(selected) ==
    [initialState EXCEPT !.selectedIds = selected]

\* a replacement of the list that drops the selected ids it does not list
setItemsPrunes(s, its) ==
    [s EXCEPT !.items = its, !.selectedIds = s.selectedIds \cap Range(its)]

setItems(s, its) == [s EXCEPT !.items = its]

\* an append that puts the new items in front
appendItemsAtHead(s, its) == [s EXCEPT !.items = its \o s.items]

appendItems(s, its) == [s EXCEPT !.items = s.items \o its]

addItem(s, item) == [s EXCEPT !.items = <<item>> \o s.items]

\* removeItem without the selection filter
removeItemKeepsSelection(s, id) ==
    [s EXCEPT !.items = SelectSeq(s.items, LAMBDA x : x # id)]

removeItem(s, id) ==
    [s EXCEPT !.items = SelectSeq(s.items, LAMBDA x : x # id),
              !.selectedIds = { x \in s.selectedIds : x # id }]

addUploadingItem(s, item) ==
    [s EXCEPT !.uploadingItems = <<item>> \o s.uploadingItems]

\* { ...item, ...updates }
Merge(item, updates) ==
    [f \in DOMAIN item |-> IF f \in DOMAIN updates THEN updates[f] ELSE item[f]]

\* an update that never lowers the progress of a placeholder
updateUploadingItemMonotone(s, tempId, updates) ==
    [s EXCEPT !.uploadingItems =
        [i \in DOMAIN s.uploadingItems |->
            IF s.uploadingItems[i].tempId = tempId
            THEN LET old == s.uploadingItems[i]
                     new == Merge(old, updates)
                 IN  [new EXCEPT !.progress =
                         IF new.progress < old.progress THEN old.progress
                         ELSE new.progress]
            ELSE s.uploadingItems[i]]]

\* an update that is merged into every placeholder
updateUploadingItemAll(s, tempId, updates) ==
    [s EXCEPT !.uploadingItems =
        [i \in DOMAIN @ |-> Merge(@[i], updates)]]

updateUploadingItem(s, tempId, updates) ==
    [s EXCEPT !.uploadingItems =
        [i \in DOMAIN s.uploadingItems |->
            IF s.uploadingItems[i].tempId = tempId
            THEN Merge(s.uploadingItems[i], updates)
            ELSE s.uploadingItems[i]]]

\* a removal that leaves the placeholder in place
removeUploadingItemKeeps(s, tempId) == s

removeUploadingItem(s, tempId) ==
    [s EXCEPT !.uploadingItems =
        SelectSeq(s.uploadingItems, LAMBDA u : u.tempId # tempId)]

\* a replacement that inserts the media item only when it finds the
\* placeholder
replaceUploadingWithMediaIfPresent(s, tempId, mediaItem) ==
    IF \E i \in DOMAIN s.uploadingItems : s.uploadingItems[i].tempId = tempId
    THEN [s EXCEPT !.uploadingItems =
                       SelectSeq(@, LAMBDA x : x.tempId # tempId),
                   !.items = <<mediaItem>> \o @]
    ELSE s

\* a replacement that inserts the media item and leaves the placeholder
replaceUploadingWithMediaKeepsPlaceholder(s, tempId, mediaItem) ==
    [s EXCEPT !.items = <<mediaItem>> \o @]

\* a replacement that drops every placeholder
replaceUploadingWithMediaClearsAll(s, tempId, mediaItem) ==
    [s EXCEPT !.uploadingItems = <<>>,
              !.items = <<mediaItem>> \o @]

\* a replacement that puts the media item at the tail of the list
replaceUploadingWithMediaAtTail(s, tempId, mediaItem) ==
    [s EXCEPT !.uploadingItems = SelectSeq(@, LAMBDA x : x.tempId # tempId),
              !.items = @ \o <<mediaItem>>]

replaceUploadingWithMedia(s, tempId, mediaItem) ==
    [s EXCEPT !.uploadingItems =
                  SelectSeq(s.uploadingItems, LAMBDA u : u.tempId # tempId),
              !.items = <<mediaItem>> \o s.items]

\* a toggle that never takes an id out of the selection
toggleSelectionNeverRemoves(s, id, mult) ==
    [s EXCEPT !.selectedIds = IF ~mult THEN {id} ELSE s.selectedIds \cup {id}]

toggleSelection(s, id, mult) ==
    [s EXCEPT !.selectedIds =
        IF id \in s.selectedIds THEN s.selectedIds \ {id}
        ELSE IF ~mult THEN {id}
        ELSE s.selectedIds \cup {id}]

\* selectItem adding to the selection whatever multiple is
selectItemAddsAlways(s, id, mult) ==
    [s EXCEPT !.selectedIds = s.selectedIds \cup {id}]

\* selectItem replacing the selection whatever multiple is
selectItemReplaces(s, id, mult) == [s EXCEPT !.selectedIds = {id}]

selectItem(s, id, mult) ==
    [s EXCEPT !.selectedIds =
        IF ~mult THEN {id} ELSE s.selectedIds \cup {id}]

deselectItem(s, id) == [s EXCEPT !.selectedIds = s.selectedIds \ {id}]

clearSelection(s) == [s EXCEPT !.selectedIds = {}]

setSelectedIds(s, ids) == [s EXCEPT !.selectedIds = ids]

setLoading(s, b) == [s EXCEPT !.isLoading = b]

\* a setSearchQuery that leaves the page where it is
setSearchQueryKeepsPage(s, q) == [s EXCEPT !.searchQuery = q]

setSearchQuery(s, q) == [s EXCEPT !.searchQuery = q, !.page = 1]

setPage(s, p) == [s EXCEPT !.page = p]

setPagination(s, more, tot) == [s EXCEPT !.hasMore = more, !.total = tot]

\* a reset that keeps the selection
resetKeepsSelection(s) ==
    [f \in DOMAIN s |-> IF f = "selectedIds" THEN s[f] ELSE initialState[f]]

reset(s) ==
    [f \in DOMAIN s |-> initialState[f]]

\* ------------------------------------------- instances and references
\* The fields items, uploadingItems and selectedIds hold references to
\* arrays and sets.  A field of an instance refers either to the object of
\* the module-level initialState ("module", shared by every instance that
\* refers to it) or to an object only this instance refers to ("own").
Instances == {1, 2}
Containers == {"items", "uploadingItems", "selectedIds"}

\* createMediaPickerStore: ...initialState copies the references to the
\* arrays of initialState; selectedIds is a new Set
createInstance(selected) ==
    [ ref |-> [items |-> "module", uploadingItems |-> "module",
               selectedIds |-> "own"],
      own |-> createMediaPickerStore(selected) ]

\* the module after two calls of createMediaPickerStore
createInstances(selected) ==
    [ module |-> [f \in Containers |-> initialState[f]],
      inst   |-> [i \in Instances |->
                    IF i = 1 THEN createInstance(selected)
                    ELSE createInstance({})] ]

\* getState() of instance i: every field with the object it refers to
View(h, i) ==
    [f \in DOMAIN initialState |->
        IF f \in Containers /\ h.inst[i].ref[f] = "module"
        THEN h.module[f] ELSE h.inst[i].own[f]]

\* a write that changes the object the field refers to, in place
AssignInPlace(h, i, f, v) ==
    IF f \in Containers /\ h.inst[i].ref[f] = "module"
    THEN [h EXCEPT !.module[f] = v]
    ELSE [h EXCEPT !.inst[i].own[f] = v]

\* set({f: v}) with v a newly built array or set (or a primitive): the field
\* of instance i refers to the new object
Assign(h, i, f, v) ==
    IF f \in Containers
    THEN [h EXCEPT !.inst[i].ref[f] = "own", !.inst[i].own[f] = v]
    ELSE [h EXCEPT !.inst[i].own[f] = v]

\* set(partial): the fields fs of instance i are assigned from s
RECURSIVE AssignAll(_, _, _, _)
AssignAll(h, i, s, fs) ==
    IF fs = {} THEN h
    ELSE LET f == CHOOSE x \in fs : TRUE
         IN  AssignAll(Assign(h, i, f, s[f]), i, s, fs \ {f})

\* reset on instance i: set(initialState) makes the fields refer to the
\* objects of initialState
resetInstance(h, i) ==
    [h EXCEPT !.inst[i] =
        [ ref |-> [f \in Containers |-> "module"], own |-> initialState ]]

\* ------------------------------------------------------------- the hook
\* the operation a step runs, with the id (or tempId) it is called with
Op(name, arg) == [name |-> name, arg |-> arg]
\* AbortController.abort() on the controller of list call ref
Abort(calls, ref) ==
    { IF c.id = ref THEN [c EXCEPT !.aborted = TRUE] ELSE c : c \in calls }

\* the effect cleanup of the search effect: abort abortControllerRef.current
CleanupAbort(calls, ref) == IF ref # 0 THEN Abort(calls, ref) ELSE calls

\* fetchItems without the abort of the previous fresh request
fetchItemsNoCancel(s, calls, ref, n, search, pg, append) ==
    [ store              |-> setLoading(s, TRUE),
      listCalls          |-> calls \cup
                               { [id |-> n + 1, append |-> append,
                                  search |-> search, page |-> pg,
                                  aborted |-> FALSE] },
      abortControllerRef |-> IF append THEN ref ELSE n + 1,
      nListCalls         |-> n + 1 ]

\* fetchItems up to its await: abort the previous fresh request, create the
\* controller, publish it when the request is fresh, set the loading flag
\* and call adapter.list.  s, calls, ref are the store, the pending calls
\* and abortControllerRef.current at the time of the call.
fetchItems(s, calls, ref, n, search, pg, append) ==
    LET cancelled == IF ~append /\ ref # 0 THEN Abort(calls, ref) ELSE calls
        id == n + 1
    IN  [ store              |-> setLoading(s, TRUE),
          listCalls          |-> cancelled \cup
                                   { [id |-> id, append |-> append,
                                      search |-> search, page |-> pg,
                                      aborted |-> FALSE] },
          abortControllerRef |-> IF append THEN ref ELSE id,
          nListCalls         |-> id ]

\* a resolve path in which only a fresh request clears the loading flag
fetchItemsResolvedFreshClears(s, c, r) ==
    IF c.aborted THEN s
    ELSE LET applied ==
               setPagination(
                 IF c.append THEN appendItems(s, r.items)
                 ELSE setItems(s, r.items),
                 r.hasMore, r.total)
         IN  IF c.append THEN applied ELSE setLoading(applied, FALSE)

\* fetchItems without the check of controller.signal.aborted
fetchItemsResolvedNoAbortCheck(s, c, r) ==
    setLoading(
      setPagination(
        IF c.append THEN appendItems(s, r.items) ELSE setItems(s, r.items),
        r.hasMore, r.total),
      FALSE)

\* fetchItems after adapter.list resolved with result r
fetchItemsResolved(s, c, r) ==
    IF c.aborted THEN s
    ELSE setLoading(
           setPagination(
             IF c.append THEN appendItems(s, r.items) ELSE setItems(s, r.items),
             r.hasMore, r.total),
           FALSE)

\* a finally block that leaves the loading flag alone
fetchItemsRejectedKeepsLoading(s, c) == s

\* fetchItems after adapter.list rejected: the finally block
fetchItemsRejected(s, c) == IF c.aborted THEN s ELSE setLoading(s, FALSE)

\* whether the catch block of fetchItems calls console.error
fetchItemsLogs(name) == name # "AbortError"

\* a catch block that rethrows what is not an AbortError
fetchItemsPromiseRethrows(resolved, name) ==
    IF resolved \/ name = "AbortError" THEN "fulfilled" ELSE "rejected"

\* how the promise of fetchItems (and so of refresh and loadMore, which
\* await it) settles when adapter.list resolved or rejected with an error
\* named name: the catch block returns or logs, and never rethrows
fetchItemsPromise(resolved, name) == "fulfilled"

\* how the promise of handleSingleFileUpload settles: the catch block
\* writes the error into the placeholder and never rethrows
handleSingleFileUploadPromise(resolved) == "fulfilled"

\* how the promise of deleteItem settles: with true, or from the catch
\* block with false
deleteItemPromise(resolved) == "fulfilled"

\* the finally block's write to abortControllerRef.current
fetchItemsSettledRef(c, ref) == IF ~c.aborted /\ ~c.append THEN 0 ELSE ref

\* a search effect that runs on every firing of the timer
searchEffectRunsAlways(value, debounced) == TRUE

\* the search effect's dependency check: it runs again only when the
\* debounced value has changed
searchEffectRuns(value, debounced) == value # debounced

\* useDebounce(value, delay): a change of the value restarts the timer, the
\* same value leaves it as it is
useDebounceTimer(newValue, value, timer) ==
    IF newValue # value THEN TRUE ELSE timer

\* the selectedItems value of the hook: the listed items whose id is selected
selectedItems(s) == SelectSeq(s.items, LAMBDA id : id \in s.selectedIds)

\* an early return that tests the loading flag only
loadMoreSuppressedLoadingOnly(s) == s.isLoading

\* loadMore's early return
loadMoreSuppressed(s) == ~s.hasMore \/ s.isLoading

\* the state after the hook's first render, before its effects have run
Init ==
    /\ initialSelected \in SUBSET MediaIds
    /\ store = createMediaPickerStore(initialSelected)
    /\ heap = createInstances(initialSelected)
    /\ multiple \in BOOLEAN
    /\ storeCalls = <<>>
    /\ phase = "init"
    /\ debouncedSearchQuery = ""
    /\ debounceTimer = FALSE
    /\ abortControllerRef = 0
    /\ listCalls = {}
    /\ nListCalls = 0
    /\ uploads = <<>>
    /\ deletes = {}
    /\ logged = FALSE
    /\ settled = "none"
    /\ op = Op("init", 0)

\* a call of fetchItems with the store as left by the caller (st) and the
\* pending calls as left by an effect cleanup (calls)
FetchItems(st, calls, search, pg, append) ==
    LET f == fetchItems(st, calls, abortControllerRef, nListCalls,
                        search, pg, append)
    IN  /\ store' = f.store
        /\ listCalls' = f.listCalls
        /\ abortControllerRef' = f.abortControllerRef
        /\ nListCalls' = f.nListCalls

\* the search effect on mount: the initial fetch
MountEffect ==
    /\ phase = "init"
    /\ FetchItems(store, listCalls, debouncedSearchQuery, 1, FALSE)
    /\ phase' = "mounted"
    /\ op' = Op("mount", 0)
    /\ logged' = FALSE
    /\ settled' = "none"
    /\ UNCHANGED <<multiple, initialSelected, heap, storeCalls, searchVars, uploads,
                   deletes>>

\* unmount: the search effect's cleanup and useDebounce's cleanup
Unmount ==
    /\ phase = "mounted"
    /\ phase' = "unmounted"
    /\ listCalls' = CleanupAbort(listCalls, abortControllerRef)
    /\ debounceTimer' = FALSE
    /\ op' = Op("unmount", 0)
    /\ logged' = FALSE
    /\ settled' = "none"
    /\ UNCHANGED <<store, multiple, initialSelected, heap, storeCalls,
                   debouncedSearchQuery, abortControllerRef,
                   nListCalls, uploads, deletes>>

\* setSearchQuery(q); useDebounce restarts its timer when the value changed
SetSearchQueryCall(q) ==
    /\ phase = "mounted"
    /\ store' = setSearchQuery(store, q)
    /\ debounceTimer' = useDebounceTimer(q, store.searchQuery, debounceTimer)
    /\ op' = Op("setSearchQuery", 0)
    /\ logged' = FALSE
    /\ settled' = "none"
    /\ UNCHANGED <<configVars, debouncedSearchQuery, listVars, uploads, deletes>>

\* the debounce timer fires: setDebouncedValue(searchQuery); when the
\* debounced value changed, the search effect runs again (cleanup, then
\* fetchItems for the new term, page 1)
DebounceFire ==
    /\ phase = "mounted"
    /\ debounceTimer
    /\ debounceTimer' = FALSE
    /\ op' = Op("debounceFire", 0)
    /\ logged' = FALSE
    /\ settled' = "none"
    /\ IF searchEffectRuns(store.searchQuery, debouncedSearchQuery)
       THEN /\ nListCalls < MaxListCalls
            /\ debouncedSearchQuery' = store.searchQuery
            /\ FetchItems(store, CleanupAbort(listCalls, abortControllerRef),
                          store.searchQuery, 1, FALSE)
       ELSE UNCHANGED <<store, debouncedSearchQuery, listVars>>
    /\ UNCHANGED <<configVars, uploads, deletes>>

\* refresh() reading the search term of the store in place of the debounced
\* one
RefreshCallUndebounced ==
    /\ phase = "mounted"
    /\ nListCalls < MaxListCalls
    /\ FetchItems(store, listCalls, store.searchQuery, 1, FALSE)
    /\ op' = Op("refresh", 0)
    /\ logged' = FALSE
    /\ settled' = "none"
    /\ UNCHANGED <<configVars, searchVars, uploads, deletes>>

RefreshCall ==
    /\ phase = "mounted"
    /\ nListCalls < MaxListCalls
    /\ FetchItems(store, listCalls, debouncedSearchQuery, 1, FALSE)
    /\ op' = Op("refresh", 0)
    /\ logged' = FALSE
    /\ settled' = "none"
    /\ UNCHANGED <<configVars, searchVars, uploads, deletes>>

\* loadMore() making its request a fresh one
LoadMoreCallFresh ==
    /\ phase = "mounted"
    /\ op' = Op("loadMore", 0)
    /\ logged' = FALSE
    /\ settled' = IF loadMoreSuppressed(store) THEN "fulfilled" ELSE "none"
    /\ IF loadMoreSuppressed(store)
       THEN UNCHANGED <<store, listVars>>
       ELSE /\ nListCalls < MaxListCalls
            /\ FetchItems(setPage(store, store.page + 1), listCalls,
                          debouncedSearchQuery, store.page + 1, FALSE)
    /\ UNCHANGED <<configVars, searchVars, uploads, deletes>>

LoadMoreCall ==
    /\ phase = "mounted"
    /\ op' = Op("loadMore", 0)
    /\ logged' = FALSE
    /\ settled' = IF loadMoreSuppressed(store) THEN "fulfilled" ELSE "none"
    /\ IF loadMoreSuppressed(store)
       THEN UNCHANGED <<store, listVars>>
       ELSE /\ nListCalls < MaxListCalls
            /\ FetchItems(setPage(store, store.page + 1), listCalls,
                          debouncedSearchQuery, store.page + 1, TRUE)
    /\ UNCHANGED <<configVars, searchVars, uploads, deletes>>

\* adapter.list resolves with r
ListResolve(c, r) ==
    /\ c \in listCalls
    /\ c.aborted \/ ~c.append \/ Len(store.items) + Len(r.items) <= MaxItems
    /\ store' = fetchItemsResolved(store, c, r)
    /\ abortControllerRef' = fetchItemsSettledRef(c, abortControllerRef)
    /\ listCalls' = listCalls \ {c}
    /\ op' = Op("listResolve", c.id)
    /\ logged' = FALSE
    /\ settled' = fetchItemsPromise(TRUE, "")
    /\ UNCHANGED <<configVars, searchVars, nListCalls, uploads, deletes>>

\* adapter.list rejects with an error named name
ListReject(c, name) ==
    /\ c \in listCalls
    /\ store' = fetchItemsRejected(store, c)
    /\ abortControllerRef' = fetchItemsSettledRef(c, abortControllerRef)
    /\ listCalls' = listCalls \ {c}
    /\ logged' = fetchItemsLogs(name)
    /\ settled' = fetchItemsPromise(FALSE, name)
    /\ op' = Op("listReject", c.id)
    /\ UNCHANGED <<configVars, searchVars, nListCalls, uploads, deletes>>

ToggleSelectionCall(id) ==
    /\ phase = "mounted"
    /\ store' = toggleSelection(store, id, multiple)
    /\ op' = Op("toggleSelection", 0)
    /\ logged' = FALSE
    /\ settled' = "none"
    /\ UNCHANGED <<configVars, searchVars, listVars, uploads, deletes>>

SelectItemCall(id) ==
    /\ phase = "mounted"
    /\ store' = selectItem(store, id, multiple)
    /\ op' = Op("selectItem", 0)
    /\ logged' = FALSE
    /\ settled' = "none"
    /\ UNCHANGED <<configVars, searchVars, listVars, uploads, deletes>>

DeselectItemCall(id) ==
    /\ phase = "mounted"
    /\ store' = deselectItem(store, id)
    /\ op' = Op("deselectItem", 0)
    /\ logged' = FALSE
    /\ settled' = "none"
    /\ UNCHANGED <<configVars, searchVars, listVars, uploads, deletes>>

ClearSelectionCall ==
    /\ phase = "mounted"
    /\ store' = clearSelection(store)
    /\ op' = Op("clearSelection", 0)
    /\ logged' = FALSE
    /\ settled' = "none"
    /\ UNCHANGED <<configVars, searchVars, listVars, uploads, deletes>>

\* handleSingleFileUpload up to its await, for the k files tempId first..
RECURSIVE StartUploads(_, _, _)
StartUploads(s, first, k) ==
    IF k = 0 THEN s
    ELSE StartUploads(
           addUploadingItem(s, [tempId |-> first, blobUrl |-> first,
                                progress |-> 0, status |-> "uploading",
                                error |-> NoError, mediaItem |-> NoMedia]),
           first + 1, k - 1)

\* uploadFiles(files) with k files
UploadFilesCall(k) ==
    /\ phase = "mounted"
    /\ Len(uploads) + k <= MaxUploads
    /\ store' = StartUploads(store, Len(uploads) + 1, k)
    /\ uploads' = uploads \o
          [i \in 1..k |-> [pc |-> "awaiting", mediaItem |-> NoMedia, revoked |-> 0]]
    /\ op' = Op("uploadFiles", 0)
    /\ logged' = FALSE
    /\ settled' = "none"
    /\ UNCHANGED <<configVars, searchVars, listVars, deletes>>

\* the adapter invokes onProgress(p)
UploadProgress(u, p) ==
    /\ u \in DOMAIN uploads
    /\ uploads[u].pc = "awaiting"
    /\ store' = updateUploadingItem(store, u, [progress |-> p])
    /\ op' = Op("uploadProgress", 0)
    /\ logged' = FALSE
    /\ settled' = "none"
    /\ UNCHANGED <<configVars, searchVars, listVars, uploads, deletes>>

\* a resolve path that forgets to set the status
UploadResolveKeepsStatus(u, m) ==
    /\ u \in DOMAIN uploads
    /\ uploads[u].pc = "awaiting"
    /\ store' = updateUploadingItem(store, u,
                    [progress |-> 100, mediaItem |-> m])
    /\ uploads' = [uploads EXCEPT ![u].pc = "successTimer", ![u].mediaItem = m]
    /\ op' = Op("uploadResolve", 0)
    /\ logged' = FALSE
    /\ settled' = handleSingleFileUploadPromise(TRUE)
    /\ UNCHANGED <<configVars, searchVars, listVars, deletes>>

\* adapter.upload resolves with media item m
UploadResolve(u, m) ==
    /\ u \in DOMAIN uploads
    /\ uploads[u].pc = "awaiting"
    /\ store' = updateUploadingItem(store, u,
                    [status |-> "success", progress |-> 100, mediaItem |-> m])
    /\ uploads' = [uploads EXCEPT ![u].pc = "successTimer", ![u].mediaItem = m]
    /\ op' = Op("uploadResolve", 0)
    /\ logged' = FALSE
    /\ settled' = handleSingleFileUploadPromise(TRUE)
    /\ UNCHANGED <<configVars, searchVars, listVars, deletes>>

\* the error message of the catch block of handleSingleFileUpload
uploadErrorMessage(e) == IF e = "NotAnError" THEN "Upload failed" ELSE e

\* adapter.upload rejects with e
UploadReject(u, e) ==
    /\ u \in DOMAIN uploads
    /\ uploads[u].pc = "awaiting"
    /\ logged' = TRUE
    /\ settled' = handleSingleFileUploadPromise(FALSE)
    /\ store' = updateUploadingItem(store, u,
                    [status |-> "error", error |-> uploadErrorMessage(e)])
    /\ uploads' = [uploads EXCEPT ![u].pc = "errorTimer"]
    /\ op' = Op("uploadReject", 0)
    /\ UNCHANGED <<configVars, searchVars, listVars, deletes>>

\* the 500 ms timer of the success path fires
UploadSuccessTimer(u) ==
    /\ u \in DOMAIN uploads
    /\ uploads[u].pc = "successTimer"
    /\ Len(store.items) < MaxItems
    /\ store' = selectItem(
                  replaceUploadingWithMedia(store, u, uploads[u].mediaItem),
                  uploads[u].mediaItem, multiple)
    /\ uploads' = [uploads EXCEPT ![u].pc = "replaced",
                                  ![u].mediaItem = NoMedia,
                                  ![u].revoked = @ + 1]
    /\ op' = Op("uploadSuccessTimer", 0)
    /\ logged' = FALSE
    /\ settled' = "none"
    /\ UNCHANGED <<configVars, searchVars, listVars, deletes>>

\* an error path that forgets URL.revokeObjectURL
UploadErrorTimerNoRevoke(u) ==
    /\ u \in DOMAIN uploads
    /\ uploads[u].pc = "errorTimer"
    /\ store' = removeUploadingItem(store, u)
    /\ uploads' = [uploads EXCEPT ![u].pc = "removed"]
    /\ op' = Op("uploadErrorTimer", 0)
    /\ logged' = FALSE
    /\ settled' = "none"
    /\ UNCHANGED <<configVars, searchVars, listVars, deletes>>

\* the 3000 ms timer of the error path fires
UploadErrorTimer(u) ==
    /\ u \in DOMAIN uploads
    /\ uploads[u].pc = "errorTimer"
    /\ store' = removeUploadingItem(store, u)
    /\ uploads' = [uploads EXCEPT ![u].pc = "removed", ![u].revoked = @ + 1]
    /\ op' = Op("uploadErrorTimer", 0)
    /\ logged' = FALSE
    /\ settled' = "none"
    /\ UNCHANGED <<configVars, searchVars, listVars, deletes>>

\* the adapter invokes onProgress(p) after the timer of the upload has
\* fired and removed the placeholder
UploadLateProgress(u, p) ==
    /\ u \in DOMAIN uploads
    /\ uploads[u].pc \in {"replaced", "removed"}
    /\ store' = updateUploadingItem(store, u, [progress |-> p])
    /\ op' = Op("uploadLateProgress", 0)
    /\ logged' = FALSE
    /\ settled' = "none"
    /\ UNCHANGED <<configVars, searchVars, listVars, uploads, deletes>>

\* deleteItem(id) up to its await
DeleteItemCall(id) ==
    /\ phase = "mounted"
    /\ id \notin deletes
    /\ Cardinality(deletes) < MaxDeletes
    /\ deletes' = deletes \cup {id}
    /\ op' = Op("deleteItem", id)
    /\ logged' = FALSE
    /\ settled' = "none"
    /\ UNCHANGED <<store, configVars, searchVars, listVars, uploads>>

\* a deleteItem that reports success whatever the adapter did
deleteItemResultTrue(fulfilled) == TRUE

\* the value the promise of deleteItem fulfils with: true after the try
\* block, false from the catch block
deleteItemResult(fulfilled) == fulfilled

\* what a settling deleteItem(id) leaves in op: its id, its result, and
\* whether id was listed and selected when the adapter call settled
DeleteSettled(id, fulfilled) ==
    [id |-> id, result |-> deleteItemResult(fulfilled),
     listed |-> id \in Range(store.items),
     selected |-> id \in store.selectedIds]

\* adapter.delete(id) resolves: removeItem, and the promise fulfils with true
DeleteResolve(id) ==
    /\ id \in deletes
    /\ store' = removeItem(store, id)
    /\ deletes' = deletes \ {id}
    /\ op' = Op("deleteResolve", DeleteSettled(id, TRUE))
    /\ logged' = FALSE
    /\ settled' = deleteItemPromise(TRUE)
    /\ UNCHANGED <<configVars, searchVars, listVars, uploads>>

\* adapter.delete(id) rejects: the promise fulfils with false
DeleteReject(id) ==
    /\ id \in deletes
    /\ logged' = TRUE
    /\ settled' = deleteItemPromise(FALSE)
    /\ deletes' = deletes \ {id}
    /\ op' = Op("deleteReject", DeleteSettled(id, FALSE))
    /\ UNCHANGED <<store, configVars, searchVars, listVars, uploads>>

\* ------------------------------------------- calls on the store itself
\* A call of one store action, as store.getState().<action>(...) makes it.
StoreStep(s, name, arg) ==
    /\ store' = s
    /\ op' = Op(name, arg)
    /\ logged' = FALSE
    /\ settled' = "none"
    /\ UNCHANGED <<multiple, initialSelected, heap, phase, searchVars, listVars,
                   uploads, deletes>>

\* the call is added to the history of calls
Recorded(name, id) ==
    /\ Len(storeCalls) < MaxCalls
    /\ storeCalls' = Append(storeCalls, [name |-> name, id |-> id])

StoreSetItems(its) ==
    /\ StoreStep(setItems(store, its), "setItems", 0)
    /\ UNCHANGED storeCalls

StoreAppendItems(its) ==
    /\ Len(store.items) + Len(its) <= MaxItems
    /\ StoreStep(appendItems(store, its), "appendItems", 0)
    /\ UNCHANGED storeCalls

StoreAddItem(id) ==
    /\ Len(store.items) < MaxItems
    /\ StoreStep(addItem(store, id), "addItem", id)
    /\ UNCHANGED storeCalls

\* the step records whether id was listed and selected when it was removed
StoreRemoveItem(id) ==
    /\ StoreStep(removeItem(store, id), "removeItem",
                 [id |-> id, listed |-> id \in Range(store.items),
                  selected |-> id \in store.selectedIds])
    /\ UNCHANGED storeCalls

\* the step records the arguments of the call
StoreToggleSelection(id, mult) ==
    StoreStep(toggleSelection(store, id, mult), "toggleSelection",
              [id |-> id, multiple |-> mult])

\* the step records the arguments of the call
StoreSelectItem(id, mult) ==
    StoreStep(selectItem(store, id, mult), "selectItem",
              [id |-> id, multiple |-> mult])

StoreDeselectItem(id) ==
    StoreStep(deselectItem(store, id), "deselectItem", id)

StoreClearSelection ==
    /\ StoreStep(clearSelection(store), "clearSelection", 0)
    /\ UNCHANGED storeCalls

StoreSetSelectedIds(ids) ==
    /\ StoreStep(setSelectedIds(store, ids), "setSelectedIds", 0)
    /\ UNCHANGED storeCalls

\* the media items that the calls of replaceUploadingWithMedia insert
UploadedIds == {1, 2}

\* the pages that the calls of setPage set
Pages == {1, 2}

\* addUploadingItem with a fresh placeholder whose tempId is t
StoreAddUploadingItem(t) ==
    /\ Len(store.uploadingItems) < MaxUploads
    /\ \A i \in DOMAIN store.uploadingItems : store.uploadingItems[i].tempId # t
    /\ StoreStep(addUploadingItem(store,
                    [tempId |-> t, blobUrl |-> t, progress |-> 0,
                     status |-> "uploading", error |-> NoError,
                     mediaItem |-> NoMedia]),
                 "addUploadingItem", t)
    /\ UNCHANGED storeCalls

StoreRemoveUploadingItem(t) ==
    /\ StoreStep(removeUploadingItem(store, t), "removeUploadingItem", t)
    /\ UNCHANGED storeCalls

\* the step records the tempId and the media item of the call; no
\* placeholder has the tempId 0
StoreReplaceUploadingWithMedia(t, m) ==
    /\ Len(store.items) < MaxItems
    /\ StoreStep(replaceUploadingWithMedia(store, t, m),
                 "replaceUploadingWithMedia", [tempId |-> t, mediaItem |-> m])
    /\ UNCHANGED storeCalls

StoreSetLoading(b) ==
    /\ StoreStep(setLoading(store, b), "setLoading", 0)
    /\ UNCHANGED storeCalls

\* the step records the query of the call
StoreSetSearchQuery(q) ==
    /\ StoreStep(setSearchQuery(store, q), "setSearchQuery", q)
    /\ UNCHANGED storeCalls

StoreSetPage(p) ==
    /\ StoreStep(setPage(store, p), "setPage", 0)
    /\ UNCHANGED storeCalls

StoreSetPagination(hasMore, total) ==
    /\ StoreStep(setPagination(store, hasMore, total), "setPagination", 0)
    /\ UNCHANGED storeCalls

\* the step records how many fields differed from the initial state
StoreReset ==
    /\ StoreStep(reset(store), "reset",
                 Cardinality({f \in DOMAIN store : store[f] # initialState[f]}))
    /\ UNCHANGED storeCalls

\* ------------------------------------- calls on one of two instances
\* the placeholder used in the calls on instances
Placeholder ==
    [tempId |-> 1, blobUrl |-> 1, progress |-> 0, status |-> "uploading",
     error |-> NoError, mediaItem |-> NoMedia]

\* a call of a store action on instance i that leaves the state s through
\* set() with the fields fs
InstanceCall(i, s, fs) ==
    /\ heap' = AssignAll(heap, i, s, fs)
    /\ op' = Op("instanceCall", i)
    /\ logged' = FALSE
    /\ settled' = "none"
    /\ UNCHANGED <<store, multiple, initialSelected, phase, storeCalls,
                   searchVars, listVars, uploads, deletes>>

InstanceItems(i) ==
    LET s == View(heap, i)
    IN  \/ InstanceCall(i, setItems(s, <<1>>), {"items"})
        \/ /\ Len(s.items) < MaxItems
           /\ InstanceCall(i, appendItems(s, <<1>>), {"items"})
        \/ /\ Len(s.items) < MaxItems
           /\ InstanceCall(i, addItem(s, 1), {"items"})
        \/ InstanceCall(i, removeItem(s, 1),
                        {"items", "selectedIds"})

InstanceUploads(i) ==
    LET s == View(heap, i)
    IN  \/ /\ s.uploadingItems = <<>>
           /\ InstanceCall(i, addUploadingItem(s, Placeholder),
                           {"uploadingItems"})
        \/ InstanceCall(i, updateUploadingItem(s, 1, [progress |-> 60]),
                        {"uploadingItems"})
        \/ InstanceCall(i, removeUploadingItem(s, 1),
                        {"uploadingItems"})
        \/ /\ Len(s.items) < MaxItems
           /\ InstanceCall(i, replaceUploadingWithMedia(s, 1, 1),
                           {"uploadingItems", "items"})

InstanceSelection(i) ==
    LET s == View(heap, i)
    IN  \/ InstanceCall(i, toggleSelection(s, 1, TRUE),
                        {"selectedIds"})
        \/ InstanceCall(i, selectItem(s, 1, FALSE),
                        {"selectedIds"})
        \/ InstanceCall(i, deselectItem(s, 1),
                        {"selectedIds"})
        \/ InstanceCall(i, clearSelection(s),
                        {"selectedIds"})
        \/ InstanceCall(i, setSelectedIds(s, {1}),
                        {"selectedIds"})

InstanceScalars(i) ==
    LET s == View(heap, i)
    IN  InstanceCall(i, setSearchQuery(s, "cat"),
                     {"searchQuery", "page"})

InstanceReset(i) ==
    /\ heap' = resetInstance(heap, i)
    /\ op' = Op("instanceCall", i)
    /\ logged' = FALSE
    /\ settled' = "none"
    /\ UNCHANGED <<store, multiple, initialSelected, phase, storeCalls,
                   searchVars, listVars, uploads, deletes>>

\* ------------------------------------------------------- specifications
\* store actions called in any order on either of two instances
IsolationNext ==
    \/ \E i \in Instances : InstanceItems(i)
    \/ \E i \in Instances : InstanceUploads(i)
    \/ \E i \in Instances : InstanceSelection(i)
    \/ \E i \in Instances : InstanceScalars(i)
    \/ \E i \in Instances : InstanceReset(i)

\* listing, search and pagination
ListNext ==
    \/ MountEffect
    \/ Unmount
    \/ \E q \in Queries : SetSearchQueryCall(q)
    \/ DebounceFire
    \/ RefreshCall
    \/ LoadMoreCall
    \/ \E c \in listCalls : \E r \in ListResults : ListResolve(c, r)
    \/ \E c \in listCalls : \E name \in RejectNames : ListReject(c, name)

\* the upload lifecycles, with the initial fetch
UploadNext ==
    \/ MountEffect
    \/ \E c \in listCalls : \E r \in ListResults : ListResolve(c, r)
    \/ \E c \in listCalls : \E name \in RejectNames : ListReject(c, name)
    \/ \E k \in 1..MaxUploads : UploadFilesCall(k)
    \/ \E u \in DOMAIN uploads : \E p \in ProgressValues : UploadProgress(u, p)
    \/ \E u \in DOMAIN uploads : \E m \in MediaIds : UploadResolve(u, m)
    \/ \E u \in DOMAIN uploads : \E e \in UploadErrors : UploadReject(u, e)
    \/ \E u \in DOMAIN uploads : UploadSuccessTimer(u)
    \/ \E u \in DOMAIN uploads : UploadErrorTimer(u)

\* the uploads from the call of uploadFiles to the firing of their timers;
\* progress reports and list results change neither which placeholders there
\* are nor how far an upload has got
UploadFairNext ==
    \/ MountEffect
    \/ \E k \in 1..MaxUploads : UploadFilesCall(k)
    \/ \E u \in DOMAIN uploads : \E m \in MediaIds : UploadResolve(u, m)
    \/ \E u \in DOMAIN uploads : \E e \in UploadErrors : UploadReject(u, e)
    \/ \E u \in DOMAIN uploads : UploadSuccessTimer(u)
    \/ \E u \in DOMAIN uploads : UploadErrorTimer(u)

\* the uploads with the progress reports of the adapter, those that reach
\* the callback after the placeholder is gone included
UploadProgressNext ==
    \/ MountEffect
    \/ \E k \in 1..MaxUploads : UploadFilesCall(k)
    \/ \E u \in DOMAIN uploads : \E p \in ProgressValues : UploadProgress(u, p)
    \/ \E u \in DOMAIN uploads : \E m \in UploadedIds : UploadResolve(u, m)
    \/ \E u \in DOMAIN uploads : \E e \in UploadErrors : UploadReject(u, e)
    \/ \E u \in DOMAIN uploads : UploadSuccessTimer(u)
    \/ \E u \in DOMAIN uploads : UploadErrorTimer(u)
    \/ \E u \in DOMAIN uploads : \E p \in ProgressValues :
          UploadLateProgress(u, p)

\* fresh fetches, uploads and deletions together; upload u resolves with
\* the media item whose id is u, so that no two uploads give the same item,
\* and the item of an upload is a new one, which the list does not hold
\* when the upload resolves
ItemsNext ==
    \/ MountEffect
    \/ RefreshCall
    \/ \E c \in listCalls : \E r \in ListResults : ListResolve(c, r)
    \/ \E k \in 1..MaxUploads : UploadFilesCall(k)
    \/ \E u \in DOMAIN uploads :
          u \notin Range(store.items) /\ UploadResolve(u, u)
    \/ \E u \in DOMAIN uploads : UploadSuccessTimer(u)
    \/ \E id \in MediaIds : DeleteItemCall(id)
    \/ \E id \in deletes : DeleteResolve(id)

\* searches and pagination with an adapter whose list calls all resolve
StaleNext ==
    \/ MountEffect
    \/ \E q \in Queries : SetSearchQueryCall(q)
    \/ DebounceFire
    \/ LoadMoreCall
    \/ \E c \in listCalls : \E r \in ListResults : ListResolve(c, r)

\* the selection calls of the hook, with the initial fetch and deletion
SelectionNext ==
    \/ MountEffect
    \/ \E c \in listCalls : \E r \in ListResults : ListResolve(c, r)
    \/ \E c \in listCalls : \E name \in RejectNames : ListReject(c, name)
    \/ \E id \in MediaIds : ToggleSelectionCall(id)
    \/ \E id \in MediaIds : SelectItemCall(id)
    \/ \E id \in MediaIds : DeselectItemCall(id)
    \/ ClearSelectionCall
    \/ \E id \in MediaIds : DeleteItemCall(id)
    \/ \E id \in deletes : DeleteResolve(id)
    \/ \E id \in deletes : DeleteReject(id)

\* the list and selection actions of a store, called in any order
StoreNext ==
    \/ \E r \in ListResults : StoreSetItems(r.items)
    \/ \E r \in ListResults : StoreAppendItems(r.items)
    \/ \E id \in MediaIds : StoreAddItem(id)
    \/ \E id \in MediaIds : StoreRemoveItem(id)
    \/ \E id \in MediaIds : \E mult \in BOOLEAN :
          StoreToggleSelection(id, mult) /\ UNCHANGED storeCalls
    \/ \E id \in MediaIds : \E mult \in BOOLEAN :
          StoreSelectItem(id, mult) /\ UNCHANGED storeCalls
    \/ \E id \in MediaIds : StoreDeselectItem(id) /\ UNCHANGED storeCalls
    \/ StoreClearSelection
    \/ \E ids \in SUBSET MediaIds : StoreSetSelectedIds(ids)

\* the placeholder, pagination and search actions of a store and reset, called
\* in any order
StoreFrameNext ==
    \/ \E t \in 1..MaxUploads : StoreAddUploadingItem(t)
    \/ \E t \in 1..MaxUploads : StoreRemoveUploadingItem(t)
    \/ \E t \in 0..MaxUploads : \E m \in UploadedIds :
          StoreReplaceUploadingWithMedia(t, m)
    \/ \E b \in BOOLEAN : StoreSetLoading(b)
    \/ \E q \in Queries : StoreSetSearchQuery(q)
    \/ \E p \in Pages : StoreSetPage(p)
    \/ \E r \in ListResults : StoreSetPagination(r.hasMore, r.total)
    \/ StoreReset

\* a sequence of toggleSelection(id, false) calls on a store
ToggleNext ==
    \E id \in MediaIds :
        StoreToggleSelection(id, FALSE) /\ Recorded("toggleSelection", id)

\* a sequence of selectItem(id, true) and deselectItem(id) calls on a store
MultiSelectNext ==
    \/ \E id \in MediaIds :
          StoreSelectItem(id, TRUE) /\ Recorded("selectItem", id)
    \/ \E id \in MediaIds :
          StoreDeselectItem(id) /\ Recorded("deselectItem", id)

\* the adapter calls that have not settled
PendingCalls ==
    Cardinality(listCalls) + Cardinality(deletes)
      + Cardinality({u \in DOMAIN uploads : uploads[u].pc = "awaiting"})

\* the list and upload calls issued so far
IssuedCalls == nListCalls + Len(uploads)

\* every operation that awaits an adapter call, with the settling of the
\* call; at most MaxPending adapter calls are pending together, and at most
\* MaxListCalls list and upload calls are issued.  Which item an upload
\* resolves with plays no part in how its promise settles.
AsyncNext ==
    \/ MountEffect
    \/ /\ PendingCalls < MaxPending
       /\ IssuedCalls < MaxListCalls
       /\ RefreshCall
    \/ /\ PendingCalls < MaxPending
       /\ IssuedCalls < MaxListCalls
       /\ LoadMoreCall
    \/ \E c \in listCalls : \E r \in ListResults : ListResolve(c, r)
    \/ \E c \in listCalls : \E name \in RejectNames : ListReject(c, name)
    \/ \E k \in 1..MaxUploads :
          /\ PendingCalls + k <= MaxPending
          /\ IssuedCalls + k <= MaxListCalls
          /\ UploadFilesCall(k)
    \/ \E u \in DOMAIN uploads : UploadResolve(u, 1)
    \/ \E u \in DOMAIN uploads : \E e \in UploadErrors : UploadReject(u, e)
    \/ \E id \in MediaIds :
          PendingCalls < MaxPending /\ DeleteItemCall(id)
    \/ \E id \in deletes : DeleteResolve(id)
    \/ \E id \in deletes : DeleteReject(id)

Next == ListNext \/ UploadNext \/ SelectionNext \/ AsyncNext \/ IsolationNext

\* No action of ListNext reads multiple or changes the selection: two
\* initial selections stand for the configurations.
ListInit == Init /\ ~multiple /\ initialSelected \in {{}, MediaIds}

ListSpec == ListInit /\ [][ListNext]_vars

\* Uploads change the selection only by auto-selecting their result: the
\* empty and the full initial selection stand for the configurations.
UploadInit == Init /\ initialSelected \in {{}, MediaIds}

UploadSpec == UploadInit /\ [][UploadNext]_vars

\* setTimeout runs its callback once the delay has passed, and nothing in the
\* hook clears the two timers of an upload: a timer that is armed fires
UploadFairSpec ==
    /\ UploadInit
    /\ [][UploadFairNext]_vars
    /\ \A u \in 1..MaxUploads :
          /\ WF_vars(UploadSuccessTimer(u))
          /\ WF_vars(UploadErrorTimer(u))

UploadProgressSpec == UploadInit /\ [][UploadProgressNext]_vars

SelectionSpec == Init /\ [][SelectionNext]_vars

\* a store as createMediaPickerStore(initialSelected) returns it; the
\* store's actions do not read the hook's option multiple
StoreInit == Init /\ ~multiple

\* setSelectedIds reaches every selection from any initial one: the empty
\* and the full initial selection stand for the rest
StoreSpecInit == StoreInit /\ initialSelected \in {{}, MediaIds}

StoreSpec == StoreSpecInit /\ [][StoreNext]_vars

StoreFrameSpec == StoreSpecInit /\ [][StoreFrameNext]_vars

ToggleSpec == StoreInit /\ [][ToggleNext]_vars

MultiSelectSpec == StoreInit /\ [][MultiSelectNext]_vars

\* No action of AsyncNext reads multiple but the auto-select of an upload,
\* and none depends on the selection: one configuration stands for all.
AsyncInit == Init /\ ~multiple /\ initialSelected = {}

AsyncSpec == AsyncInit /\ [][AsyncNext]_vars

ItemsSpec == AsyncInit /\ [][ItemsNext]_vars

StaleSpec == ListInit /\ [][StaleNext]_vars

\* the first instance is created with the empty selection or with one id
\* selected, the second with the empty one
IsolationInit == Init /\ ~multiple /\ initialSelected \in {{}, {1}}

IsolationSpec == IsolationInit /\ [][IsolationNext]_vars

Spec == Init /\ [][Next]_vars

\* --------------------------------------------------------------- claims
\* the adapter.list call issued by the step, when it issued exactly one
IssuedCall(search, pg, append) ==
    /\ nListCalls' = nListCalls + 1
    /\ Cardinality(listCalls') = Cardinality(listCalls) + 1
    /\ \E c \in listCalls' :
          /\ c.id = nListCalls'
          /\ c.search = search
          /\ c.page = pg
          /\ c.append = append

\* C1: of two fresh list requests pending together the older one is
\* cancelled; the settling of a cancelled request, in whatever order, changes
\* no field of the store, and the resolution of the live fresh request makes
\* the item list its result.
C1_StaleFreshRequestDiscarded ==
    /\ [](\A a, b \in listCalls :
            (~a.append /\ ~b.append /\ a.id < b.id) => a.aborted)
    /\ [][op'.name \in {"listResolve", "listReject"}
          => \A c \in listCalls :
               /\ (op'.arg = c.id /\ c.aborted) => store' = store
               /\ (op'.name = "listResolve" /\ op'.arg = c.id
                     /\ ~c.append /\ ~c.aborted)
                  => \A r \in ListResults :
                       ListResolve(c, r) => store'.items = r.items]_vars

\* the initial fetch (call 1) resolved after the fresh fetch that superseded
\* it (call 2) had resolved with a non-empty list, which is still there
C1_Witness ==
    /\ op = Op("listResolve", 1)
    /\ nListCalls = 2
    /\ listCalls = {}
    /\ ~store.isLoading
    /\ store.items # <<>>

\* C2: a loadMore() call made while an adapter.list call that was not
\* cancelled is still pending issues no list call and changes no field of
\* the store.
C2_LoadMoreSuppressedWhileInFlight ==
    [][(op'.name = "loadMore" /\ \E c \in listCalls : ~c.aborted)
       => (store' = store /\ listCalls' = listCalls
             /\ nListCalls' = nListCalls)]_vars

\* C3: the preview URL of an upload is not revoked while its placeholder is
\* shown, and has been revoked exactly once when the placeholder has been
\* replaced (success path) or removed (error path).
C3_PreviewReleasedExactlyOnce ==
    \A u \in DOMAIN uploads :
        /\ uploads[u].pc \in {"replaced", "removed"} => uploads[u].revoked = 1
        /\ uploads[u].pc \in {"awaiting", "successTimer", "errorTimer"}
           => uploads[u].revoked = 0

\* two uploads, one ended on the success path and one on the error path
C3_Witness ==
    \E u, v \in DOMAIN uploads :
        /\ uploads[u].pc = "replaced" /\ uploads[u].revoked = 1
        /\ uploads[v].pc = "removed" /\ uploads[v].revoked = 1

\* C4: in single-select mode the selection holds at most one id in every
\* reachable state of the widget.
C4_SingleSelectAtMostOne ==
    ~multiple => Cardinality(store.selectedIds) <= 1

\* C5: after every call of a sequence of toggleSelection(id, false) calls
\* the selection holds at most one id.
C5_ToggleSingleAtMostOne ==
    storeCalls # <<>> => Cardinality(store.selectedIds) <= 1

\* the ids passed to the calls named name so far
CalledWith(name) ==
    { storeCalls[i].id :
        i \in { j \in DOMAIN storeCalls : storeCalls[j].name = name } }

\* the name of the last call made with id, "none" when there is none
LastCall(id) ==
    LET idx == { i \in DOMAIN storeCalls : storeCalls[i].id = id }
    IN  IF idx = {} THEN "none"
        ELSE storeCalls[CHOOSE i \in idx : \A j \in idx : j <= i].name

\* C6 as stated: after a sequence of selectItem(id, true) and
\* deselectItem(id) calls the selection is the ids selected (with the
\* initial selection) minus the ids deselected.
C6_SelectedMinusDeselected ==
    store.selectedIds =
        (initialSelected \cup CalledWith("selectItem"))
            \ CalledWith("deselectItem")

\* C6 amended: after a sequence of selectItem(id, true) and deselectItem(id)
\* calls an id is selected exactly when the last call made with it is
\* selectItem, or no call was made with it and it was initially selected.
C6_LastCallDecides ==
    store.selectedIds =
        { id \in MediaIds :
            \/ LastCall(id) = "selectItem"
            \/ LastCall(id) = "none" /\ id \in initialSelected }

\* an id selected, deselected and selected again, or selected twice
C6_Witness ==
    /\ Len(storeCalls) = MaxCalls
    /\ \E id \in MediaIds :
          /\ id \in CalledWith("selectItem") \cap CalledWith("deselectItem")
          /\ id \in store.selectedIds
    /\ storeCalls[MaxCalls - 1] = storeCalls[MaxCalls]

\* C7: in the state a removeItem(id) call leaves, id is neither in the item
\* list nor in the selection.
C7_RemoveItemAtomic ==
    op.name = "removeItem"
    => /\ op.arg.id \notin Range(store.items)
       /\ op.arg.id \notin store.selectedIds

\* removeItem(id) acted on an id that was listed and selected, and left
\* other items and other selected ids
C7_Witness ==
    /\ op.name = "removeItem"
    /\ op.arg.listed
    /\ op.arg.selected
    /\ store.items # <<>>
    /\ store.selectedIds # {}

\* C8 as stated: setSearchQuery calls issue no list call, and the firing of
\* the debounce timer issues exactly one, for the last value set and page 1.
C8_OneFetchPerBurst ==
    [][/\ op'.name = "setSearchQuery" => UNCHANGED listVars
       /\ op'.name = "debounceFire"
          => IssuedCall(store.searchQuery, 1, FALSE)]_vars

\* C8 amended: the firing of the debounce timer issues exactly one list call,
\* for the last value set and page 1, when that value differs from the
\* debounced search term, and none when it equals it.
C8_OneFetchPerChangedTerm ==
    [][/\ op'.name = "setSearchQuery" => UNCHANGED listVars
       /\ (op'.name = "debounceFire"
             /\ store.searchQuery # debouncedSearchQuery)
          => IssuedCall(store.searchQuery, 1, FALSE)
       /\ (op'.name = "debounceFire"
             /\ store.searchQuery = debouncedSearchQuery)
          => UNCHANGED listVars]_vars

\* the timer fired after "cat" and "cats" were typed and issued the one call
\* of the burst, for "cats"
C8_Witness ==
    /\ op.name = "debounceFire"
    /\ debouncedSearchQuery = "cats"
    /\ nListCalls = 2
    /\ \E c \in listCalls :
          c.id = 2 /\ c.search = "cats" /\ c.page = 1 /\ ~c.append

\* C9: a loadMore() call made when hasMore is false issues no list call and
\* changes no field of the store.
C9_LoadMoreWithoutMore ==
    [][(op'.name = "loadMore" /\ ~store.hasMore)
       => (store' = store /\ UNCHANGED listVars)]_vars

\* loadMore() was called with nothing in flight and hasMore false
C9_Witness ==
    /\ op.name = "loadMore"
    /\ ~store.hasMore
    /\ ~store.isLoading
    /\ listCalls = {}
    /\ store.items # <<>>

\* C10: when the adapter.list call of a request that was not cancelled
\* rejects with an error other than an AbortError, the step clears the
\* loading flag, logs the failure and leaves the item list, hasMore, total
\* and the selection as they were.
C10_ListFailureLeavesItems ==
    [][op'.name = "listReject"
       => \A c \in listCalls :
            (op'.arg = c.id /\ ~c.aborted /\ ListReject(c, "Error"))
            => /\ ~store'.isLoading
               /\ logged'
               /\ store'.items = store.items
               /\ store'.hasMore = store.hasMore
               /\ store'.total = store.total
               /\ store'.selectedIds = store.selectedIds]_vars

\* the latest request of a mounted widget failed: logged, loading cleared,
\* the earlier list still there
C10_Witness ==
    /\ phase = "mounted"
    /\ op = Op("listReject", nListCalls)
    /\ logged
    /\ listCalls = {}
    /\ ~store.isLoading
    /\ store.items # <<>>
    /\ store.selectedIds # {}

\* C11: the promise of deleteItem(id) fulfils with true exactly when the
\* adapter.delete call fulfilled; with true, the step removed id from items
\* and from the selection and changed nothing else; with false, the step
\* changed no field of the store and left no adapter.delete call for id.
C11_DeleteItemResult ==
    [][op'.name \in {"deleteResolve", "deleteReject"}
       => LET id == op'.arg.id
          IN  /\ op'.arg.result <=> op'.name = "deleteResolve"
              /\ id \notin deletes'
              /\ deletes' = deletes \ {id}
              /\ op'.arg.result
                 => /\ store'.items = SelectSeq(store.items, LAMBDA x : x # id)
                    /\ store'.selectedIds = store.selectedIds \ {id}
                    /\ \A f \in DOMAIN store \ {"items", "selectedIds"} :
                          store'[f] = store[f]
              /\ ~op'.arg.result => store' = store]_vars

\* a deletion of a listed and selected id failed: false, logged, and the id
\* is still listed and selected
C11_Witness ==
    /\ op.name = "deleteReject"
    /\ ~op.arg.result
    /\ op.arg.listed /\ op.arg.selected
    /\ op.arg.id \in Range(store.items)
    /\ op.arg.id \in store.selectedIds
    /\ logged

\* the temp ids of the placeholders of store s
TempIds(s) == { s.uploadingItems[i].tempId : i \in DOMAIN s.uploadingItems }

\* the placeholder of store s with temp id u
UploadingItemOf(s, u) ==
    s.uploadingItems[CHOOSE i \in DOMAIN s.uploadingItems :
                        s.uploadingItems[i].tempId = u]

\* C12: the step in which adapter.upload resolves with m gives the file's
\* placeholder status success, progress 100 and mediaItem m and leaves items
\* and the selection alone; the placeholder stays so until the display timer
\* fires, and that step removes the placeholder, puts m at the head of items
\* and selects m: alone when multiple is false, added to the selection when
\* multiple is true.
C12_UploadSuccessPath ==
    /\ [](\A u \in DOMAIN uploads :
            uploads[u].pc = "successTimer"
            => /\ u \in TempIds(store)
               /\ UploadingItemOf(store, u).status = "success"
               /\ UploadingItemOf(store, u).progress = 100
               /\ UploadingItemOf(store, u).mediaItem = uploads[u].mediaItem
               /\ uploads[u].mediaItem \in MediaIds)
    /\ [][/\ op'.name = "uploadResolve"
             => \A u \in DOMAIN uploads : \A m \in MediaIds :
                  UploadResolve(u, m)
                  => /\ UploadingItemOf(store', u).status = "success"
                     /\ UploadingItemOf(store', u).progress = 100
                     /\ UploadingItemOf(store', u).mediaItem = m
                     /\ store'.items = store.items
                     /\ store'.selectedIds = store.selectedIds
          /\ op'.name = "uploadSuccessTimer"
             => \A u \in DOMAIN uploads :
                  UploadSuccessTimer(u)
                  => LET m == UploadingItemOf(store, u).mediaItem
                     IN  /\ u \notin TempIds(store')
                         /\ store'.items = <<m>> \o store.items
                         /\ store'.selectedIds =
                               IF multiple THEN store.selectedIds \cup {m}
                               ELSE {m}]_vars

\* in multi-select mode two uploads were replaced by their items, the last
\* one at the head of a list of several items, both added to the selection
C12_Witness ==
    /\ op.name = "uploadSuccessTimer"
    /\ multiple
    /\ initialSelected = {}
    /\ Len(store.items) >= 2
    /\ Head(store.items) \in store.selectedIds
    /\ Cardinality(store.selectedIds) = 2
    /\ \A u \in DOMAIN uploads : uploads[u].pc = "replaced"

\* C13: the step in which adapter.upload rejects gives the file's placeholder
\* status error and a non-empty error message and leaves items and the
\* selection alone; the step of the error timer removes the placeholder,
\* leaves items and the selection alone and makes the one release of the
\* preview URL.
C13_UploadErrorPath ==
    [][/\ op'.name = "uploadReject"
          => \A u \in DOMAIN uploads : \A e \in UploadErrors :
               UploadReject(u, e)
               => /\ UploadingItemOf(store', u).status = "error"
                  /\ UploadingItemOf(store', u).error \notin {"", NoError}
                  /\ store'.items = store.items
                  /\ store'.selectedIds = store.selectedIds
       /\ op'.name = "uploadErrorTimer"
          => \A u \in DOMAIN uploads :
               UploadErrorTimer(u)
               => /\ u \notin TempIds(store')
                  /\ store'.items = store.items
                  /\ store'.selectedIds = store.selectedIds
                  /\ uploads[u].revoked = 0
                  /\ uploads'[u].revoked = 1]_vars

\* the steps of one upload lifecycle
UploadStepNames ==
    {"uploadProgress", "uploadResolve", "uploadReject",
     "uploadSuccessTimer", "uploadErrorTimer"}

\* C14: an uploadFiles call with k files adds k placeholders with k new,
\* distinct temp ids, status uploading and progress 0, makes k adapter.upload
\* calls and leaves the earlier placeholders alone; a step of one upload
\* (progress, success, failure, either timer) changes neither the placeholder
\* nor the position of any other upload, and an upload whose adapter call is
\* pending can always settle.
C14_IndependentUploads ==
    /\ [](\A u \in DOMAIN uploads :
            uploads[u].pc = "awaiting"
            => /\ ENABLED UploadResolve(u, 1)
               /\ ENABLED UploadReject(u, "Network error"))
    /\ [][/\ op'.name = "uploadFiles"
             => LET old == DOMAIN uploads
                    new == DOMAIN uploads' \ old
                IN  /\ new # {}
                    /\ Len(store'.uploadingItems)
                          = Len(store.uploadingItems) + Cardinality(new)
                    /\ TempIds(store') = TempIds(store) \cup new
                    /\ new \cap TempIds(store) = {}
                    /\ \A u \in new :
                          /\ UploadingItemOf(store', u).status = "uploading"
                          /\ UploadingItemOf(store', u).progress = 0
                          /\ uploads'[u].pc = "awaiting"
                    /\ \A v \in TempIds(store) :
                          UploadingItemOf(store', v) = UploadingItemOf(store, v)
                    /\ \A v \in old : uploads'[v] = uploads[v]
          /\ op'.name \in UploadStepNames
             => \E u \in DOMAIN uploads :
                  \A v \in DOMAIN uploads \ {u} :
                     /\ uploads'[v] = uploads[v]
                     /\ v \in TempIds(store) <=> v \in TempIds(store')
                     /\ v \in TempIds(store)
                        => UploadingItemOf(store', v)
                             = UploadingItemOf(store, v)]_vars

\* of two files uploaded together one has just failed while the other is
\* still uploading, at the progress its adapter call reported
C14_Witness ==
    /\ op.name = "uploadReject"
    /\ \E u, v \in DOMAIN uploads :
          /\ uploads[u].pc = "errorTimer"
          /\ UploadingItemOf(store, u).status = "error"
          /\ UploadingItemOf(store, u).progress = 30
          /\ uploads[v].pc = "awaiting"
          /\ UploadingItemOf(store, v).status = "uploading"
          /\ UploadingItemOf(store, v).progress = 60

\* C15: when A's adapter.upload call resolves while B's is pending, A's
\* placeholder becomes success and B's stays as it is, with status uploading;
\* when A's display timer then fires while B's call is still pending, A's
\* placeholder is gone, B's is still there with status uploading, and A's
\* media item stands ahead of all items the list held before.
C15_FirstResolvedReplacedFirst ==
    [][op'.name \in {"uploadResolve", "uploadSuccessTimer"}
       => \A a, b \in DOMAIN uploads :
            (a # b /\ uploads[b].pc = "awaiting" /\ uploads'[a] # uploads[a])
            => /\ b \in TempIds(store')
               /\ UploadingItemOf(store', b).status = "uploading"
               /\ uploads'[b].pc = "awaiting"
               /\ op'.name = "uploadResolve"
                  => /\ UploadingItemOf(store', a).status = "success"
                     /\ store'.items = store.items
               /\ op'.name = "uploadSuccessTimer"
                  => /\ a \notin TempIds(store')
                     /\ store'.items
                          = <<UploadingItemOf(store, a).mediaItem>>
                              \o store.items]_vars

\* the first of two files was replaced by its media item, at the head of a
\* list that held an item before, while the second is still uploading
C15_Witness ==
    /\ op.name = "uploadSuccessTimer"
    /\ Len(uploads) = 2
    /\ uploads[1].pc = "replaced"
    /\ uploads[2].pc = "awaiting"
    /\ TempIds(store) = {2}
    /\ UploadingItemOf(store, 2).status = "uploading"
    /\ Len(store.items) = 2
    /\ store.items[1] # store.items[2]

\* the steps in which an adapter call settles
SettleNames ==
    {"listResolve", "listReject", "uploadResolve", "uploadReject",
     "deleteResolve", "deleteReject"}

C17_InstancesIsolated ==
    [][\A i, j \in Instances :
          (i # j /\ op' = Op("instanceCall", i))
          => View(heap', j) = View(heap, j)]_vars

\* the first instance put an item into its list and selected an id while
\* the second still referred to the array of initialState and, after a
\* reset, to its set
C17_Witness ==
    /\ op = Op("instanceCall", 1)
    /\ heap.inst[1].ref.items = "own"
    /\ View(heap, 1).items # <<>>
    /\ View(heap, 1).selectedIds # {}
    /\ heap.inst[2].ref.items = "module"
    /\ heap.inst[2].ref.selectedIds = "module"
    /\ View(heap, 2) = initialState

\* the fresh list requests that are neither settled nor cancelled
LiveFresh(calls) == { c \in calls : ~c.append /\ ~c.aborted }

\* C18: in every state at most one fresh list request is pending and not
\* cancelled, and it is the one abortControllerRef holds; the step that
\* issues a fresh request leaves every earlier fresh request that is still
\* pending cancelled.
C18_OneLiveFreshRequest ==
    /\ [](/\ Cardinality(LiveFresh(listCalls)) <= 1
          /\ \A c \in LiveFresh(listCalls) : abortControllerRef = c.id)
    /\ [][nListCalls' = nListCalls + 1
          => \A n \in listCalls' :
               (n.id = nListCalls' /\ ~n.append)
               => /\ ~n.aborted
                  /\ \A c \in listCalls' :
                        (c.id # n.id /\ ~c.append) => c.aborted]_vars

\* refresh() was called while a fresh request was pending: the earlier one
\* is cancelled and unsettled, the new one is live
C18_Witness ==
    /\ op.name = "refresh"
    /\ \E a, b \in listCalls :
          /\ ~a.append /\ a.aborted
          /\ ~b.append /\ ~b.aborted
          /\ a.id < b.id
          /\ abortControllerRef = b.id

\* C19: when the adapter.list call of a request that was not cancelled
\* resolves with r, a fresh request makes items r.items, an append request
\* makes items the previous items followed by r.items, and both make hasMore
\* and total those of r.
C19_ResolveReplacesOrAppends ==
    [][op'.name = "listResolve"
       => \A c \in listCalls :
            (op'.arg = c.id /\ ~c.aborted)
            => \A r \in ListResults :
                 ListResolve(c, r)
                 => /\ store'.items =
                         IF c.append THEN store.items \o r.items
                         ELSE r.items
                    /\ store'.hasMore = r.hasMore
                    /\ store'.total = r.total]_vars

\* the initial fetch gave item 1 and hasMore, loadMore's request then gave
\* item 2 and no more: the list is 1 followed by 2
C19_Witness ==
    /\ op = Op("listResolve", 2)
    /\ nListCalls = 2
    /\ listCalls = {}
    /\ store.page = 2
    /\ store.items = <<1, 2>>
    /\ ~store.hasMore
    /\ store.total = 2

\* C20: when the adapter.list call of a fresh request that a newer fresh
\* request has cancelled settles, by resolving or by rejecting, the step logs
\* nothing and changes no field of the store.
C20_StaleSettleSilent ==
    [][(op'.name \in {"listResolve", "listReject"} /\ phase = "mounted")
       => \A c \in listCalls :
            (op'.arg = c.id /\ c.aborted)
            => (store' = store /\ ~logged')]_vars

\* C21: refresh() issues exactly one list request, a fresh one for page 1
\* of the debounced search term, which is pending and not cancelled, and
\* leaves every other fresh request that is still pending cancelled.
C21_RefreshIssuesFreshPageOne ==
    [][(op'.name = "refresh" /\ nListCalls' # nListCalls)
       => /\ IssuedCall(debouncedSearchQuery, 1, FALSE)
          /\ \A n \in listCalls' :
                n.id = nListCalls'
                => /\ ~n.aborted
                   /\ abortControllerRef' = n.id
                   /\ \A c \in listCalls' :
                         (c.id # n.id /\ ~c.append) => c.aborted
          /\ \A c \in listCalls :
                \E d \in listCalls' :
                    /\ d.id = c.id
                    /\ d.search = c.search
                    /\ d.page = c.page
                    /\ d.append = c.append]_vars

\* refresh() was called after a search for "cat" whose debounce timer has
\* not fired yet, while the mount's request was pending: the request of
\* refresh() is for the debounced term "" and page 1, the older one is
\* cancelled
C21_Witness ==
    /\ op.name = "refresh"
    /\ store.searchQuery = "cat"
    /\ debouncedSearchQuery = ""
    /\ \E a, b \in listCalls :
          /\ ~a.append /\ a.aborted /\ a.id < b.id
          /\ b.id = nListCalls /\ ~b.append /\ ~b.aborted
          /\ b.search = "" /\ b.page = 1

\* the positions of the item list that hold a selected id
SelectedPositions(s) == {i \in DOMAIN s.items : s.items[i] \in s.selectedIds}

\* the store actions that act on the selection by their contract
SelectionOps ==
    {"toggleSelection", "selectItem", "deselectItem", "clearSelection",
     "setSelectedIds"}

C23_SettledUploadRemoved ==
    /\ \A u \in 1..MaxUploads :
          (u \in DOMAIN uploads
             /\ uploads[u].pc \in {"successTimer", "errorTimer"})
          ~> (u \in DOMAIN uploads
                /\ uploads[u].pc \in {"replaced", "removed"}
                /\ u \notin TempIds(store))
    /\ [][\A u \in DOMAIN uploads :
            /\ (u \in TempIds(store) /\ u \notin TempIds(store'))
               => /\ op'.name \in {"uploadSuccessTimer", "uploadErrorTimer"}
                  /\ uploads[u].pc \in {"successTimer", "errorTimer"}
            /\ u \notin TempIds(store) => u \notin TempIds(store')]_vars

\* upload 1 resolved and upload 2 was rejected; both timers have fired and
\* no placeholder is left
C23_Witness ==
    /\ Len(uploads) = 2
    /\ uploads[1].pc = "replaced"
    /\ uploads[2].pc = "removed"
    /\ store.uploadingItems = <<>>

\* C24: a replaceUploadingWithMedia(tempId, item) call made when no
\* placeholder has that tempId puts item at the head of the item list and
\* leaves uploadingItems and every other field of the store as they were.
C24_ReplaceWithoutPlaceholder ==
    [][(op'.name = "replaceUploadingWithMedia"
          /\ op'.arg.tempId \notin TempIds(store))
       => store' = [store EXCEPT
                       !.items = <<op'.arg.mediaItem>> \o store.items]]_vars

\* replaceUploadingWithMedia(0, 2) was called on a store with the
\* placeholders 2 and 1, the item 1, a full selection and a search term
C24_Witness ==
    /\ op.name = "replaceUploadingWithMedia"
    /\ op.arg.tempId = 0
    /\ op.arg.mediaItem = 2
    /\ Len(store.uploadingItems) = 2
    /\ store.items = <<2, 1>>
    /\ store.selectedIds = MediaIds
    /\ store.searchQuery = "cat"
    /\ store.hasMore

\* C25: the placeholder of a resolved upload leaves uploadingItems in the
\* very step that puts the upload's media item at the head of items: in no
\* state has the replacement of an upload happened with its placeholder
\* still there, or its placeholder gone with the replacement still to come.
C25_ReplacementOneTransition ==
    /\ [](\A u \in DOMAIN uploads :
            /\ uploads[u].pc = "successTimer" => u \in TempIds(store)
            /\ uploads[u].pc = "replaced" => u \notin TempIds(store))
    /\ [][\A u \in DOMAIN uploads :
            uploads[u].pc = "successTimer"
            => /\ (u \notin TempIds(store')) <=> (uploads'[u].pc = "replaced")
               /\ uploads'[u].pc = "replaced"
                  => store'.items = <<uploads[u].mediaItem>> \o store.items]_vars

\* both uploads resolved with item 1; the timer of the first has fired and
\* put item 1 in the list, the placeholder of the second is still shown
C25_Witness ==
    /\ op.name = "uploadSuccessTimer"
    /\ Len(uploads) = 2
    /\ uploads[1].pc = "replaced"
    /\ uploads[2].pc = "successTimer"
    /\ uploads[2].mediaItem = 1
    /\ TempIds(store) = {2}
    /\ store.items = <<1>>

\* C26: a setSearchQuery(query) call makes searchQuery query and page 1 and
\* leaves items, uploadingItems, selectedIds, isLoading, hasMore and total
\* as they were.
C26_SetSearchQueryFrame ==
    [][op'.name = "setSearchQuery"
       => /\ store'.searchQuery = op'.arg
          /\ store'.page = 1
          /\ \A f \in {"items", "uploadingItems", "selectedIds", "isLoading",
                       "hasMore", "total"} : store'[f] = store[f]
          /\ DOMAIN store' = DOMAIN store]_vars

\* setSearchQuery("cats") was called on a store that holds an item, a
\* placeholder and a full selection, is loading and has more pages
C26_Witness ==
    /\ op = Op("setSearchQuery", "cats")
    /\ store.searchQuery = "cats"
    /\ store.page = 1
    /\ store.items # <<>>
    /\ store.uploadingItems # <<>>
    /\ store.selectedIds = MediaIds
    /\ store.isLoading
    /\ store.hasMore
    /\ store.total = 2

\* C27: a toggleSelection(id, multiple) call leaves the previous selection
\* without id when id was selected; when it was not, it leaves exactly {id}
\* if multiple is false and the previous selection with id if it is true.
C27_ToggleSelectionResult ==
    [][op'.name = "toggleSelection"
       => LET id == op'.arg.id
              previous == store.selectedIds
          IN  /\ id \in previous => store'.selectedIds = previous \ {id}
              /\ (id \notin previous /\ ~op'.arg.multiple)
                 => store'.selectedIds = {id}
              /\ (id \notin previous /\ op'.arg.multiple)
                 => store'.selectedIds = previous \cup {id}]_vars

\* toggleSelection(2, false) was called on the selection {1, 2, 3}
C27_Witness ==
    /\ op = Op("toggleSelection", [id |-> 2, multiple |-> FALSE])
    /\ store.selectedIds = {1, 3}

\* C28: a selectItem(id, false) call leaves exactly {id} selected whatever
\* was selected before, and a selectItem(id, true) call leaves the previous
\* selection with id.
C28_SelectItemResult ==
    [][op'.name = "selectItem"
       => store'.selectedIds =
             IF op'.arg.multiple
             THEN store.selectedIds \cup {op'.arg.id}
             ELSE {op'.arg.id}]_vars

\* selectItem(2, false) was called on a store created with every id
\* selected and holding items
C28_Witness ==
    /\ op = Op("selectItem", [id |-> 2, multiple |-> FALSE])
    /\ initialSelected = MediaIds
    /\ store.selectedIds = {2}
    /\ store.items # <<>>

\* C29: while the hook is mounted, isLoading is false when no list request
\* is pending; a loadMore() call made when hasMore is true and isLoading is
\* false raises page by one and issues exactly one list request, an append
\* request for the new page and the debounced search term, and leaves every
\* pending request and abortControllerRef as they were.
C29_LoadMoreIssuesNextPage ==
    /\ []((phase = "mounted" /\ listCalls = {}) => ~store.isLoading)
    /\ [][(op'.name = "loadMore" /\ store.hasMore /\ ~store.isLoading)
          => /\ store'.page = store.page + 1
             /\ IssuedCall(debouncedSearchQuery, store.page + 1, TRUE)
             /\ listCalls \subseteq listCalls'
             /\ abortControllerRef' = abortControllerRef]_vars

\* loadMore() was called a second time while the fresh request of a
\* refresh() was pending: its request is for page 3 and the fresh request is
\* not cancelled
C29_Witness ==
    /\ op.name = "loadMore"
    /\ store.page = 3
    /\ \E f, a \in listCalls :
          /\ ~f.append /\ ~f.aborted /\ abortControllerRef = f.id
          /\ a.append /\ a.id = nListCalls /\ f.id < a.id
          /\ a.page = 3 /\ a.search = debouncedSearchQuery

\* C30: a reset() call leaves items and uploadingItems empty, the selection
\* empty, isLoading false, searchQuery empty, page 1, hasMore false and
\* total 0, whatever the state before and the initial selection of the
\* store.
C30_ResetRestoresInitialState ==
    [][op'.name = "reset"
       => /\ store'.items = <<>>
          /\ store'.uploadingItems = <<>>
          /\ store'.selectedIds = {}
          /\ ~store'.isLoading
          /\ store'.searchQuery = ""
          /\ store'.page = 1
          /\ ~store'.hasMore
          /\ store'.total = 0]_vars

\* reset() was called on a store created with every id selected, in a
\* state in which each of the eight fields differed from the initial state
C30_Witness ==
    /\ op = Op("reset", 8)
    /\ initialSelected = MediaIds
    /\ store.selectedIds = {}
    /\ store.items = <<>>
    /\ store.page = 1

\* C31: a progress report p for an upload makes the progress of its
\* placeholder p, whatever it was, and changes nothing else; an upload whose
\* placeholder has had no progress report completes as any other; a progress
\* report that arrives after the placeholder was removed leaves the store
\* unchanged.
C31_ProgressLastValueWins ==
    [][/\ op'.name = "uploadProgress"
          => \A u \in DOMAIN uploads : \A p \in ProgressValues :
               UploadProgress(u, p)
               => store' = [store EXCEPT !.uploadingItems =
                     [i \in DOMAIN store.uploadingItems |->
                        IF store.uploadingItems[i].tempId = u
                        THEN [store.uploadingItems[i] EXCEPT !.progress = p]
                        ELSE store.uploadingItems[i]]]
       /\ op'.name = "uploadResolve"
          => \A u \in DOMAIN uploads :
               (uploads'[u] # uploads[u]
                  /\ UploadingItemOf(store, u).progress = 0)
               => /\ UploadingItemOf(store', u).status = "success"
                  /\ UploadingItemOf(store', u).progress = 100
       /\ op'.name = "uploadLateProgress" => store' = store]_vars

\* a progress report came for an upload whose placeholder the success timer
\* had replaced, while the placeholder of the other upload stood at 60
C31_Witness ==
    /\ op.name = "uploadLateProgress"
    /\ Len(uploads) = 2
    /\ uploads[1].pc = "replaced"
    /\ uploads[2].pc = "awaiting"
    /\ TempIds(store) = {2}
    /\ UploadingItemOf(store, 2).progress = 60
    /\ store.items # <<>>

\* C32: in every state no two entries of the item list have the same id.
C32_NoDuplicateIds ==
    \A i, j \in DOMAIN store.items :
        i # j => store.items[i] # store.items[j]

\* C33: in every state of a mounted hook in which the latest fresh list
\* request, which no request has superseded, is pending, isLoading is true.
C33_LoadingWhilePending ==
    (phase = "mounted"
       /\ \E c \in listCalls :
             ~c.append /\ ~c.aborted /\ abortControllerRef = c.id)
    => store.isLoading

\* C34: when the latest fresh request, made for the debounced search term,
\* has resolved and been applied (no list call rejects here, and
\* abortControllerRef is cleared when a fresh request settles that was not
\* cancelled), the resolution of a load-more request issued for another
\* search term leaves items, hasMore and total as they are.
C34_StaleLoadMoreDropped ==
    [][(op'.name = "listResolve" /\ abortControllerRef = 0)
       => \A c \in listCalls :
            (op'.arg = c.id /\ c.append /\ c.search # debouncedSearchQuery)
            => /\ store'.items = store.items
               /\ store'.hasMore = store.hasMore
               /\ store'.total = store.total]_vars

\* C35: in the state that the resolution of a fresh list request which was
\* not cancelled leaves, with the list replaced by its result, page is 1.
C35_FreshResultAtPageOne ==
    [][op'.name = "listResolve"
       => \A c \in listCalls :
            (op'.arg = c.id /\ ~c.append /\ ~c.aborted)
            => store'.page = 1]_vars

\* C36: when the list call of a loadMore() rejects, with page still the one
\* that this loadMore() set, the step leaves page at the value it had before
\* the loadMore() call, one less than the page requested.
C36_RejectedLoadMoreRestoresPage ==
    [][op'.name = "listReject"
       => \A c \in listCalls :
            (op'.arg = c.id /\ c.append /\ store.page = c.page)
            => store'.page = c.page - 1]_vars

\* C37: when deleteItem(id) has just fulfilled with true for a listed id,
\* the resolution of a list request that was pending at that time leaves id
\* out of the item list.
C37_DeletedItemStaysOut ==
    [][(op.name = "deleteResolve" /\ op'.name = "listResolve"
          /\ op.arg.result /\ op.arg.listed)
       => op.arg.id \notin Range(store'.items)]_vars

\* C38: in every state of a mounted hook in which no list request is
\* pending, every request issued having resolved or rejected, cancelled or
\* not, isLoading is false.
C38_LoadingClearedWhenAllSettled ==
    (phase = "mounted" /\ listCalls = {}) => ~store.isLoading

\* the hook has issued the initial request, a load-more request and two
\* more requests; all have settled, the last one by rejecting
C38_Witness ==
    /\ phase = "mounted"
    /\ listCalls = {}
    /\ nListCalls = MaxListCalls
    /\ store.page > 1
    /\ op.name = "listReject"
    /\ ~store.isLoading

\* C39: every placeholder has one of the three statuses, has a mediaItem
\* only with status success and an error only with status error; the status
\* of a placeholder changes only from uploading, to success or to error, and
\* never in the step of a progress report.
C39_StatusChangesOnce ==
    /\ [](\A i \in DOMAIN store.uploadingItems :
            LET x == store.uploadingItems[i]
            IN  /\ x.status \in {"uploading", "success", "error"}
                /\ x.mediaItem # NoMedia => x.status = "success"
                /\ x.error # NoError => x.status = "error")
    /\ [][\A u \in TempIds(store) \cap TempIds(store') :
            LET old == UploadingItemOf(store, u).status
                new == UploadingItemOf(store', u).status
            IN  old # new
                => /\ old = "uploading"
                   /\ new \in {"success", "error"}
                   /\ op'.name \notin {"uploadProgress",
                                       "uploadLateProgress"}]_vars

\* of two uploads the first has resolved and the second was rejected; both
\* placeholders are shown, one with its media item, one with its error
C39_Witness ==
    /\ TempIds(store) = {1, 2}
    /\ UploadingItemOf(store, 1).status = "success"
    /\ UploadingItemOf(store, 1).mediaItem # NoMedia
    /\ UploadingItemOf(store, 1).error = NoError
    /\ UploadingItemOf(store, 2).status = "error"
    /\ UploadingItemOf(store, 2).mediaItem = NoMedia
    /\ UploadingItemOf(store, 2).error = "Network error"

====
